---- MODULE Spec2Model ----
(***************************************************************************)
(* The LTI 1.3 launch path, the assessment endpoints and the grade         *)
(* passback of the adaptive assessment backend:                            *)
(*   backend/app.py              /lti/login, /lti/launch, /answer,          *)
(*                               GET|DELETE /session/{id}, SESSIONS,        *)
(*                               used_nonces                                *)
(*   backend/lti_integration.py  LTIValidator.validate_launch,              *)
(*                               LTIGradeSubmitter.submit_grade,            *)
(*                               _get_access_token, store_lti_session,      *)
(*                               get_lti_session, lti_sessions,             *)
(*                               LTIConfig (the signing key and its file)   *)
(*   backend/models/session.py   SessionState                               *)
(*   backend/engine/adaptive_engine.py  next_question, score_response       *)
(*                                                                         *)
(* The handlers are `async def` functions without a single await in their  *)
(* bodies: on the event loop each handler body runs to completion before   *)
(* another one starts.  A launch request is therefore modelled in three    *)
(* steps: it arrives (Submit), its handler body runs as one action         *)
(* (lti_launch), and its response is delivered (Deliver).  Several         *)
(* requests may be in flight at once and are served in any order.  The     *)
(* assessment endpoints are one action each, the response kept in          *)
(* `response`.                                                             *)
(*                                                                         *)
(* Spec        the running service: logins and launches, requests with the *)
(*             tokens the platform signs for this tool.                    *)
(* SpecLaunch  one launch request carrying any token whatever, served in   *)
(*             any state of the nonce registry and at any time.            *)
(* SpecAnswer  the assessment endpoints after the launches: /answer,       *)
(*             GET and DELETE /session/{id} in any order, time passing.    *)
(* SpecGrade   one invocation of submit_grade with any launch claims,      *)
(*             against a platform that answers anything, fails or stays    *)
(*             silent.                                                     *)
(* SpecAnswerFair  SpecAnswer with the service serving for as long as it   *)
(*             can and the clock running.                                  *)
(* SpecRegistry  Spec with time passing, served for as long as it can.     *)
(* SpecLogin   Spec with login initiations of every form: GET or POST, the *)
(*             hints in the query string or in the form body.              *)
(* SpecKeys    the key store: the process started, stopped and restarted,  *)
(*             the key file removed or damaged from outside, the key set   *)
(*             published and assertions signed.  In the other              *)
(*             specifications the process is up on the key of its first    *)
(*             start.                                                      *)
(*                                                                         *)
(* jwt.decode(id_token, options={"verify_signature": False}) is PyJWT 2.x: *)
(* with signature verification switched off the library also switches off  *)
(* the exp / nbf / iat / aud / iss checks, so decoding returns the payload *)
(* of any well-formed token and raises only for a token that is not a JWT. *)
(* requests.post is given no timeout: it returns when the platform answers *)
(* and raises when the connection fails, and it does neither when the      *)
(* platform stays silent.                                                  *)
(* HTMLResponse renders its body in the constructor (str.encode to UTF-8), *)
(* inside the launch handler's try block.                                  *)
(***************************************************************************)
EXTENDS Integers, Sequences, FiniteSets, TLC

\* ------------------------------------------------------------------ bounds
MaxNonce == 2
MaxTime == 1
MaxReq == 2
MaxKeys == 4
MaxSigned == 2

Nonces == 1..MaxNonce
Times == 0..MaxTime
ReqIds == 1..MaxReq

\* ----------------------------------------------------------- configuration
\* LTIConfig.issuer and LTIConfig.client_id
issuer == "https://canvas.instructure.com"
client_id == "client-id"

Issuers == {issuer, "https://evil.example"}
Audiences == {client_id, "other-client"}

\* ------------------------------------------------------------------ tokens
message_type == "https://purl.imsglobal.org/spec/lti/claim/message_type"
version == "https://purl.imsglobal.org/spec/lti/claim/version"
ags_endpoint == "https://purl.imsglobal.org/spec/lti-ags/claim/endpoint"

\* The list with one claim forgotten.
required_claims_without_iat == {"iss", "aud", "sub", "exp", "nonce", message_type, version}

required_claims == {"iss", "aud", "sub", "exp", "iat", "nonce", message_type, version}

\* The claims a token may carry: the eight that LTI 1.3 requires, a
\* not-before time and the grading-services endpoint.
ClaimNames ==
    {"iss", "aud", "sub", "exp", "iat", "nonce", message_type, version, "nbf", ags_endpoint}

\* The values a token's nonce claim may carry: a nonce /lti/login has issued
\* or may issue (1..MaxNonce), or a value it never issues (MaxNonce + 1).
NonceVals == 1..(MaxNonce + 1)

\* An id_token as the platform, or anybody else, may post it.
\*   jwt    the string is a JWT at all (three base64url segments, JSON payload)
\*   has    the claims present in the payload
\*   iss, aud, exp, nbf, nonce   the values of those claims when present
\*   nonce_type   "str", or "list" for a nonce claim that is a JSON array
\*   sig    the signature verifies against the platform's published key
\*   ags    the value of the grading-services endpoint claim: "lineitem" an
\*          object with a lineitem URL (what the platform sends), "object" an
\*          object without one, "text" a string, "empty" an empty object
\*   name   the display name the page greets the user with: "text" for a
\*          string UTF-8 can encode (or no name claim: "Student" is used),
\*          "surrogate" for a string holding a lone surrogate, which JSON
\*          can carry ("\ud800") and UTF-8 cannot encode
\* A claim that is absent has no value: its field holds a fixed default.
MkToken(h, i, a, e, nb, n, nt, s) ==
    [jwt |-> TRUE, has |-> h, iss |-> i, aud |-> a, exp |-> e, nbf |-> nb,
     nonce |-> n, nonce_type |-> nt, sig |-> s,
     ags |-> IF ags_endpoint \in h THEN "lineitem" ELSE "empty", name |-> "text"]

\* A string that is no JWT.
NoToken ==
    [jwt |-> FALSE, has |-> {}, iss |-> issuer, aud |-> client_id, exp |-> 0, nbf |-> 0,
     nonce |-> 1, nonce_type |-> "str", sig |-> FALSE, ags |-> "empty", name |-> "text"]

\* The tokens whose payload holds exactly the claims h, with any values.
TokensWith(h) ==
    { [MkToken(h, i, a, e, nb, n[1], n[2], s) EXCEPT !.name = nm] :
        i \in (IF "iss" \in h THEN Issuers ELSE {issuer}),
        a \in (IF "aud" \in h THEN Audiences ELSE {client_id}),
        e \in (IF "exp" \in h THEN Times ELSE {0}),
        nb \in (IF "nbf" \in h THEN Times ELSE {0}),
        n \in (IF "nonce" \in h
               THEN { <<v, "str">> : v \in NonceVals } \cup { <<1, "list">> }
               ELSE { <<1, "str">> }),
        s \in BOOLEAN,
        nm \in {"text", "surrogate"} }

\* The tokens of the running system: signed by the platform for this tool,
\* with every required claim and an expiry ahead, differing in nonce and in
\* whether the launch is gradable.
PlatformTokens ==
    { MkToken((ClaimNames \ {"nbf", ags_endpoint}) \cup g, issuer, client_id,
              MaxTime, 0, n, "str", TRUE) :
        g \in {{}, {ags_endpoint}}, n \in NonceVals }

\* ------------------------------------------------------------------- state
VARIABLES
    used_nonces,    \* app.py used_nonces: issued and not yet consumed
    nonce_ctr,      \* secrets.token_urlsafe: nonces 1..nonce_ctr were generated
    launched,       \* history: [sid, nonce] of every launch that was accepted
    SESSIONS,       \* app.py SESSIONS: session id -> SessionState
    lti_sessions,   \* lti_integration.py lti_sessions: session id -> record
    sid_ctr,        \* uuid.uuid4: session ids 1..sid_ctr were generated
    now,            \* time.time()
    req,            \* the /lti/launch requests in flight
    response,       \* the last response of /lti/login, /answer and
                    \* GET|DELETE /session/{id} in the run at hand
    calls,          \* history: the invocations of submit_grade, in order
    keystore        \* the key file on disk, the process and the keys it holds

vars == <<used_nonces, nonce_ctr, launched, SESSIONS, lti_sessions, sid_ctr, now, req, response,
          calls, keystore>>

\* A request slot.  raced is history: when the handler served the request,
\* another request carrying the same nonce was waiting to be served.
Idle == [st |-> "idle", tok |-> NoToken, status |-> 0, sid |-> 0, raced |-> FALSE]

Pending(id_token) ==
    [st |-> "pending", tok |-> id_token, status |-> 0, sid |-> 0, raced |-> FALSE]

\* The nonces some launch was accepted with.
Consumed == { p.nonce : p \in launched }

\* ---------------------------------------------------- /lti/login requests
\* The hints of an OIDC login initiation, each with the value the platform
\* gives it.
HintValues == [login_hint |-> "user-hint", lti_message_hint |-> "message-hint"]

\* The parameter sets a request may carry: any of the hints, or none.
ParamMaps == { [k \in names |-> HintValues[k]] : names \in SUBSET DOMAIN HintValues }

NoParams == [k \in {} |-> ""]

\* A login request: its method, its query string and its form body.
LoginRequest(method, query_params, form) ==
    [method |-> method, query_params |-> query_params, form |-> form]

\* The platform's login initiations: the hints in the query string of a
\* GET or of a POST, or in the form body of a POST.
LoginRequests ==
    { LoginRequest(m, q, NoParams) : m \in {"GET", "POST"}, q \in ParamMaps }
      \cup { LoginRequest("POST", NoParams, f) : f \in ParamMaps }

\* The login initiation of the running system: a GET with both hints.
PlatformLoginRequests == { LoginRequest("GET", HintValues, NoParams) }

NoRequest == LoginRequest("none", NoParams, NoParams)

\* params.get(key, default)
get(params, key, default) == IF key \in DOMAIN params THEN params[key] ELSE default

\* A response of /lti/login or of the assessment endpoints.
\*   op   "login" GET|POST /lti/login, "answer" POST /answer,
\*        "status" GET /session/{id}, "end" DELETE /session/{id}
\*   status            the HTTP status
\*   finished          /answer: the "finished" field of the body
\*   grade_submitted   /answer: "absent" when the body holds no summary or a
\*                     summary without the key, else "true" or "false"
\*   is_lti_session    GET /session/{id}: the field of that name
\*   state, nonce      /lti/login: the parameters of those names in the
\*                     redirect URL (0 in every other response)
\*   login_hint, lti_message_hint   /lti/login: the parameters of those
\*                     names in the redirect URL
\*   request           /lti/login, history: the request that was answered
Response(op, session_id, status, finished, grade_submitted, is_lti_session) ==
    [op |-> op, session_id |-> session_id, status |-> status, finished |-> finished,
     grade_submitted |-> grade_submitted, is_lti_session |-> is_lti_session,
     state |-> 0, nonce |-> 0, login_hint |-> "", lti_message_hint |-> "",
     request |-> NoRequest]

\* No request was answered yet.
NoResponse == Response("none", 0, 0, FALSE, "absent", FALSE)

\* --------------------------------------------------------- models/session.py
\* SessionState.__init__ / reset
SessionState ==
    [question_number |-> 1, finished |-> FALSE, current_question |-> 0, history |-> 0]

\* SessionState.max_questions
max_questions == 10

\* ---------------------------------------------- engine/adaptive_engine.py
\* next_question: past the last question the session is marked finished and
\* None is returned, current_question staying what it was.  Otherwise the
\* generator falls back to a stock question when the model fails, so a
\* question is set; current_question holds the question's number (0 is
\* None).  (The stock question is looked up by session.bloom_level, a string
\* unless a generated question carried a bloom that is none; that lookup
\* failing is not modelled.)
next_question(session) ==
    IF session.question_number > max_questions
    THEN [session EXCEPT !.finished = TRUE]
    ELSE [session EXCEPT !.current_question = session.question_number]

\* ----------------------------------------------------- lti_integration.py
\* jwt.decode(..., verify_signature False): the payload, or an exception
\* (InvalidTokenError) for a string that is no JWT.  {} stands for "raised".
jwt_decode(id_token) == IF id_token.jwt THEN {id_token} ELSE {}

\* validate_launch without the audience check.
validate_launch_no_aud(id_token) ==
    LET decoded == jwt_decode(id_token) IN
    IF decoded = {} THEN {}
    ELSE LET unverified == CHOOSE c \in decoded : TRUE IN
         IF \E claim \in required_claims : claim \notin unverified.has THEN {}
         ELSE IF unverified.iss # issuer THEN {}
         ELSE {unverified}

\* validate_launch without the issuer check.
validate_launch_no_iss(id_token) ==
    LET decoded == jwt_decode(id_token) IN
    IF decoded = {} THEN {}
    ELSE LET unverified == CHOOSE c \in decoded : TRUE IN
         IF \E claim \in required_claims : claim \notin unverified.has THEN {}
         ELSE IF unverified.aud # client_id THEN {}
         ELSE {unverified}

\* LTIValidator.validate_launch: the set holding the claims, or {} for None.
validate_launch(id_token) ==
    LET decoded == jwt_decode(id_token) IN
    IF decoded = {} THEN {}
    ELSE LET unverified == CHOOSE c \in decoded : TRUE IN
         IF \E claim \in required_claims : claim \notin unverified.has THEN {}
         ELSE IF unverified.iss # issuer THEN {}
         ELSE IF unverified.aud # client_id THEN {}
         ELSE {unverified}

\* The launch claims dropped instead of stored.
store_lti_session_skipped(store, session_id, lti_claims) == store

\* store_lti_session
store_lti_session(store, session_id, lti_claims) ==
    [s \in DOMAIN store \cup {session_id} |->
        IF s = session_id THEN [claims |-> lti_claims, timestamp |-> now]
        ELSE store[s]]

\* ------------------------------------------------------------------ app.py
\* uuid4 never runs out; no more sessions are created than nonces issued
MaxSess == MaxNonce

\* The membership test left out.
nonce_in_unchecked(registry, nonce) == TRUE

\* `nonce not in used_nonces`, negated
nonce_in(registry, nonce) == nonce \in registry

\* The discard left out.
discard_forgotten(registry, nonce) == registry

\* used_nonces.discard(nonce)
discard(registry, nonce) == registry \ {nonce}

\* An await between the membership test and the discard.
await_inserted == TRUE

\* The handler body holds no await between the membership test and the
\* discard: no other handler runs between the two.
await_after_nonce_check == FALSE

\* SESSIONS[session_id] = session
put_session(sessions, session_id, session) ==
    [s \in DOMAIN sessions \cup {session_id} |->
        IF s = session_id THEN session ELSE sessions[s]]

\* ------------------------------------------- lti_integration.py: LTIConfig
\* An RSA key pair is known by its modulus n; key pairs are numbered in the
\* order rsa.generate_private_key produces them (two calls never give the
\* same pair).
\*   a key object   [private, n, e]
\*   the key file   [kind, n]: "absent" no file at key_path, "pem" the
\*                  unencrypted PKCS8 PEM of key pair n, "corrupt" a file
\*                  that cannot be opened or does not parse
\* rsa.generate_private_key(public_exponent=65537, ...)
public_exponent == 65537

NoKey == [private |-> FALSE, n |-> 0, e |-> 0]

NoFile == [kind |-> "absent", n |-> 0]

CorruptFile == [kind |-> "corrupt", n |-> 0]

\* The k-th key pair generated.
generate_private_key(k) == [private |-> TRUE, n |-> k, e |-> public_exponent]

\* private_key.private_bytes(PEM, PKCS8, NoEncryption())
private_bytes(private_key) == [kind |-> "pem", n |-> private_key.n]

\* serialization.load_pem_private_key(f.read(), password=None)
load_pem_private_key(pem) == [private |-> TRUE, n |-> pem.n, e |-> public_exponent]

\* The public half of another key pair.
public_key_of_other_pair(private_key) ==
    [private |-> FALSE, n |-> private_key.n + 1, e |-> private_key.e]

\* private_key.public_key()
public_key(private_key) == [private |-> FALSE, n |-> private_key.n, e |-> private_key.e]

\* int_to_base64url: the big-endian bytes of the number, base64url, unpadded
int_to_base64url(n) == <<"base64url", n>>

\* The number a base64url string encodes.
base64url_to_int(b) == b[2]

\* get_public_jwks: the one entry of "keys"
get_public_jwks(public) ==
    [kty |-> "RSA", alg |-> "RS256", use |-> "sig", kid |-> "1",
     n |-> int_to_base64url(public.n), e |-> int_to_base64url(public.e)]

NoJwks == [kty |-> "none", alg |-> "none", use |-> "none", kid |-> "none",
           n |-> int_to_base64url(0), e |-> int_to_base64url(0)]

\* str(x) of a clock reading: its decimal text
str(x) == <<"str", x>>

\* the lifetime of a client assertion, in seconds
assertion_lifetime == 300

\* jwt_claim and jwt.encode(jwt_claim, private_key, algorithm="RS256",
\* headers={"kid": "1"}), built when time.time() reads t: the header, the
\* key pair the signature was made with, and the claims that vary
client_assertion(private_key, t) ==
    [alg |-> "RS256", kid |-> "1", signed_with |-> private_key.n,
     iat |-> t, exp |-> t + assertion_lifetime, jti |-> str(t)]

NoAssertion ==
    [alg |-> "none", kid |-> "none", signed_with |-> 0, iat |-> 0, exp |-> 0, jti |-> str(0)]

\* No file is ever found: a key is generated at every start.
os_path_exists_never(file) == FALSE

\* A file that does not load counts as no file.
os_path_exists_and_loads(file) == file.kind = "pem"

\* os.path.exists(key_path)
os_path_exists(file) == file.kind # "absent"

\* _get_or_generate_private_key, with k key pairs generated so far:
\*   raised   open or load_pem_private_key raised
\*   key      the key returned
\*   file     the key file afterwards
\*   generated   the number of key pairs generated afterwards
get_or_generate_private_key(file, k) ==
    IF os_path_exists(file)
    THEN IF file.kind = "pem"
         THEN [raised |-> FALSE, key |-> load_pem_private_key(file), file |-> file,
               generated |-> k]
         ELSE [raised |-> TRUE, key |-> NoKey, file |-> file, generated |-> k]
    ELSE [raised |-> FALSE, key |-> generate_private_key(k + 1),
          file |-> private_bytes(generate_private_key(k + 1)), generated |-> k + 1]

\* The key store.
\*   file         the file at key_path
\*   process      "stopped", "serving", or "failed" when the import of app.py
\*                raised and the server exited
\*   private_key, public_key   LTIConfig's attributes in the serving process
\*   loaded       the serving process read its key from the file
\*   generated    the number of key pairs generated so far
\*   jwks         the entry GET /lti/jwks last published in this process
\*   assertion    the client assertion last signed in this process
\*   jtis         history: the jti of every assertion signed in this process
\*   first        history: the key pair the first successful start used
\*   touched      history: the key file was changed by something other than
\*                the service since the service wrote it
KeyStore(file, process, private, loaded, generated, first, touched) ==
    [file |-> file, process |-> process, private_key |-> private, loaded |-> loaded,
     public_key |-> IF private.private THEN public_key(private) ELSE NoKey,
     generated |-> generated, jwks |-> NoJwks, assertion |-> NoAssertion, jtis |-> <<>>,
     first |-> first, touched |-> touched]

\* The service running on the key its first start generated.
Serving ==
    KeyStore(private_bytes(generate_private_key(1)), "serving", generate_private_key(1),
             FALSE, 1, 1, FALSE)

Init ==
    /\ used_nonces = {}
    /\ nonce_ctr = 0
    /\ launched = {}
    /\ SESSIONS = <<>>
    /\ lti_sessions = <<>>
    /\ sid_ctr = 0
    /\ now = 0
    /\ req = [r \in ReqIds |-> Idle]
    /\ response = NoResponse
    /\ calls = <<>>
    /\ keystore = Serving

\* The nonce generated and not recorded.
add_forgotten(registry, nonce) == registry

\* used_nonces.add(nonce)
add(registry, nonce) == registry \cup {nonce}

\* A generator that returns its previous value again.
token_urlsafe_repeating == IF nonce_ctr = 0 THEN nonce_ctr + 1 ELSE nonce_ctr

\* secrets.token_urlsafe(32): 32 random bytes, a value never generated before
token_urlsafe == nonce_ctr + 1

\* The two values put under each other's name.
auth_params_swapped(state, nonce, params) ==
    [state |-> nonce, nonce |-> state,
     login_hint |-> get(params, "login_hint", ""),
     lti_message_hint |-> get(params, "lti_message_hint", "")]

\* auth_params: the parameters of the redirect URL that vary
auth_params(state, nonce, params) ==
    [state |-> state, nonce |-> nonce,
     login_hint |-> get(params, "login_hint", ""),
     lti_message_hint |-> get(params, "lti_message_hint", "")]

\* RedirectResponse(url=auth_url): 307 with the parameters in the URL
RedirectResponse(url) ==
    [Response("login", 0, 307, FALSE, "absent", FALSE)
        EXCEPT !.state = url.state, !.nonce = url.nonce,
               !.login_hint = url.login_hint, !.lti_message_hint = url.lti_message_hint]

\* GET|POST /lti/login: the hints are read from the query string, a fresh
\* random state and a fresh random nonce are generated, the nonce is
\* recorded, all four are sent in the redirect.  The state is a draw of its
\* own, never equal to a nonce: it is written as the negative of the nonce
\* drawn with it.
lti_login(request) ==
    LET params == request.query_params
        state == 0 - token_urlsafe
        nonce == token_urlsafe
    IN  /\ nonce_ctr < MaxNonce
        /\ nonce_ctr' = nonce_ctr + 1
        /\ used_nonces' = add(used_nonces, nonce)
        /\ response' = [RedirectResponse(auth_params(state, nonce, params))
                           EXCEPT !.request = request]
        /\ UNCHANGED <<launched, SESSIONS, lti_sessions, sid_ctr, now, req, calls, keystore>>

\* A POST /lti/launch arrives with an id_token.  Its nonce is one that was
\* issued, or a value that never is: a nonce yet to be generated cannot be
\* presented, it is 32 random bytes.
Submit(r, id_token) ==
    /\ req[r].st = "idle"
    /\ id_token.nonce \in (1..nonce_ctr) \cup {MaxNonce + 1}
    /\ req' = [req EXCEPT ![r] = Pending(id_token)]
    /\ UNCHANGED <<used_nonces, nonce_ctr, launched, SESSIONS, lti_sessions, sid_ctr, now, response, calls, keystore>>

\* Another request with the same nonce is waiting for the handler.
Racing(r) ==
    \E o \in ReqIds \ {r} :
        /\ req[o].st = "pending"
        /\ req[o].tok.nonce = req[r].tok.nonce
        /\ req[o].tok.nonce_type = req[r].tok.nonce_type

Respond(r, code, session_id) ==
    req' = [req EXCEPT ![r] = [st |-> "done", tok |-> req[r].tok, status |-> code,
                               sid |-> session_id,
                               raced |-> req[r].raced \/ Racing(r)]]

\* A rejection that takes the request's nonce out of the registry first.
Reject_consuming(r, code) ==
    /\ Respond(r, code, 0)
    /\ used_nonces' = discard(used_nonces, req[r].tok.nonce)
    /\ UNCHANGED <<nonce_ctr, launched, SESSIONS, lti_sessions, sid_ctr, now, response, calls, keystore>>

\* raise HTTPException(status_code=code): nothing was changed
Reject(r, code) ==
    /\ Respond(r, code, 0)
    /\ UNCHANGED <<used_nonces, nonce_ctr, launched, SESSIONS, lti_sessions, sid_ctr, now, response, calls, keystore>>

\* HTMLResponse(content=...): Response.__init__ renders the body, that is
\* content.encode("utf-8"), which raises UnicodeEncodeError for a lone
\* surrogate; the handler's `except Exception` answers 500.
HTMLResponse(user_name) == IF user_name = "surrogate" THEN 500 ELSE 200

\* The handler from the discard on: the nonce is removed, the session is
\* created and registered, the first question is fetched, the page built
\* and returned.
Accept(r) ==
    LET id_token == req[r].tok
        session_id == sid_ctr + 1
        is_gradable == ags_endpoint \in id_token.has
    IN  /\ sid_ctr < MaxSess
        /\ used_nonces' = discard(used_nonces, id_token.nonce)
        /\ launched' = launched \cup {[sid |-> session_id, nonce |-> id_token.nonce]}
        /\ sid_ctr' = session_id
        /\ SESSIONS' = put_session(SESSIONS, session_id, next_question(SessionState))
        /\ lti_sessions' =
              IF is_gradable
              THEN store_lti_session(lti_sessions, session_id, id_token)
              ELSE lti_sessions
        /\ Respond(r, HTMLResponse(id_token.name),
                   IF HTMLResponse(id_token.name) = 200 THEN session_id ELSE 0)
        /\ UNCHANGED <<nonce_ctr, now, response, calls, keystore>>

\* POST /lti/launch, the handler body.
lti_launch(r) ==
    /\ req[r].st \in {"pending", "checked"}
    /\ IF req[r].st = "checked"
       THEN Accept(r)
       ELSE LET id_token == req[r].tok
                claims == validate_launch(id_token)
            IN  IF claims = {}
                THEN Reject(r, 401)
                ELSE IF id_token.nonce_type = "list"
                \* `nonce not in used_nonces` raises TypeError for an unhashable
                \* nonce; `except Exception` turns it into a 500
                THEN Reject(r, 500)
                ELSE IF ~nonce_in(used_nonces, id_token.nonce)
                THEN Reject(r, 401)
                ELSE IF await_after_nonce_check
                THEN /\ req' = [req EXCEPT ![r].st = "checked",
                                           ![r].raced = Racing(r)]
                     /\ UNCHANGED <<used_nonces, nonce_ctr, launched, SESSIONS,
                                    lti_sessions, sid_ctr, now, response, calls, keystore>>
                ELSE Accept(r)

\* The response reaches the client; the request is over.
Deliver(r) ==
    /\ req[r].st = "done"
    /\ req' = [req EXCEPT ![r] = Idle]
    /\ UNCHANGED <<used_nonces, nonce_ctr, launched, SESSIONS, lti_sessions, sid_ctr, now, response, calls, keystore>>

Next ==
    \/ \E request \in PlatformLoginRequests : lti_login(request)
    \/ \E r \in ReqIds, t \in PlatformTokens : Submit(r, t)
    \/ \E r \in ReqIds : lti_launch(r)
    \/ \E r \in ReqIds : Deliver(r)

Spec == Init /\ [][Next]_vars

\* -------------------------------------------------------------- SpecLogin
\* The running service, with login initiations of every form.
NextLogin ==
    \/ \E request \in LoginRequests : lti_login(request)
    \/ \E r \in ReqIds, t \in PlatformTokens : Submit(r, t)
    \/ \E r \in ReqIds : lti_launch(r)
    \/ \E r \in ReqIds : Deliver(r)

SpecLogin == Init /\ [][NextLogin]_vars

\* ------------------------------------------------------------- SpecLaunch
\* One launch request with any token (any subset of the claims, any values,
\* or a string that is no JWT), in a state the service can be in:
\* every nonce was issued, the first few of them were consumed by launches
\* that were not gradable, and some time has passed.
InitLaunch ==
    /\ nonce_ctr = MaxNonce
    /\ sid_ctr \in 0..MaxNonce
    /\ used_nonces = (sid_ctr + 1)..MaxNonce
    /\ launched = { [sid |-> n, nonce |-> n] : n \in 1..sid_ctr }
    /\ SESSIONS = [s \in 1..sid_ctr |-> next_question(SessionState)]
    /\ lti_sessions = <<>>
    /\ now \in Times
    /\ \E h \in SUBSET ClaimNames : \E t \in TokensWith(h) \cup {NoToken} :
          req = [r \in ReqIds |-> IF r = 1 THEN Pending(t) ELSE Idle]
    /\ response = NoResponse
    /\ calls = <<>>
    /\ keystore = Serving

NextLaunch == \E r \in ReqIds : lti_launch(r)

SpecLaunch == InitLaunch /\ [][NextLaunch]_vars

\* ------------------------------------- lti_integration.py: grade passback
HttpStatuses == {200, 201, 204, 400, 403, 500}

\* What the platform does with one request of the tool:
\*   "response"  it answers: status, and for the token endpoint whether the
\*               body is JSON with a non-empty access_token
\*   "error"     requests.post raises (connection refused or reset, DNS)
\*   "silence"   the connection is accepted and no answer ever comes
PlatformResponse(kind, status, access_token) ==
    [kind |-> kind, status |-> status, access_token |-> access_token]

TokenResponses ==
    { PlatformResponse("response", s, a) : s \in HttpStatuses, a \in BOOLEAN }
      \cup { PlatformResponse("error", 0, FALSE), PlatformResponse("silence", 0, FALSE) }

ScoreResponses ==
    { PlatformResponse("response", s, FALSE) : s \in HttpStatuses }
      \cup { PlatformResponse("error", 0, FALSE), PlatformResponse("silence", 0, FALSE) }

\* The platform as one grade submission meets it.
Platforms == [token : TokenResponses, score : ScoreResponses]

\* _get_access_token with the status of the answer ignored.
get_access_token_any_status(token_response) ==
    IF token_response.kind = "silence"
    THEN [returned |-> FALSE, access_token |-> FALSE, requests |-> 1]
    ELSE IF token_response.kind = "error"
    THEN [returned |-> TRUE, access_token |-> FALSE, requests |-> 1]
    ELSE [returned |-> TRUE, access_token |-> token_response.access_token, requests |-> 1]

\* _get_access_token asking a second time after an answer other than 200.
get_access_token_retrying(token_response) ==
    IF token_response.kind = "silence"
    THEN [returned |-> FALSE, access_token |-> FALSE, requests |-> 1]
    ELSE IF token_response.kind = "error"
    THEN [returned |-> TRUE, access_token |-> FALSE, requests |-> 1]
    ELSE IF token_response.status = 200
    THEN [returned |-> TRUE, access_token |-> token_response.access_token, requests |-> 1]
    ELSE [returned |-> TRUE, access_token |-> FALSE, requests |-> 2]

\* LTIGradeSubmitter._get_access_token: one requests.post to the token
\* endpoint, without a timeout.  access_token FALSE is None (or ""): the
\* answer was not 200, its body had no access_token or was no JSON, or the
\* post raised (`except Exception`).  returned FALSE: the post never returns.
get_access_token(token_response) ==
    IF token_response.kind = "silence"
    THEN [returned |-> FALSE, access_token |-> FALSE, requests |-> 1]
    ELSE IF token_response.kind = "error"
    THEN [returned |-> TRUE, access_token |-> FALSE, requests |-> 1]
    ELSE IF token_response.status = 200
    THEN [returned |-> TRUE, access_token |-> token_response.access_token, requests |-> 1]
    ELSE [returned |-> TRUE, access_token |-> FALSE, requests |-> 1]

\* Any 2xx taken for success.
score_accepted_2xx(status) == status < 300

\* response.status_code in [200, 201]
score_accepted(status) == status \in {200, 201}

\* How an invocation ends.  st: "returned", "raised" (an exception leaves the
\* function) or "blocked" (it waits for an answer for ever); result is the
\* value returned; the requests sent to the two endpoints are counted.
Outcome(st, result, token_requests, score_requests) ==
    [st |-> st, result |-> result,
     token_requests |-> token_requests, score_requests |-> score_requests]

\* The access token requested before the claims are looked at.
submit_grade_try_token_first(id_token_claims, platform) ==
    LET access_token == get_access_token(platform.token) IN
    IF ~access_token.returned
    THEN Outcome("blocked", FALSE, access_token.requests, 0)
    ELSE IF ags_endpoint \notin id_token_claims.has \/ id_token_claims.ags # "lineitem"
    THEN Outcome("returned", FALSE, access_token.requests, 0)
    ELSE IF ~access_token.access_token
    THEN Outcome("returned", FALSE, access_token.requests, 0)
    ELSE IF platform.score.kind = "silence"
    THEN Outcome("blocked", FALSE, access_token.requests, 1)
    ELSE IF platform.score.kind = "error"
    THEN Outcome("raised", FALSE, access_token.requests, 1)
    ELSE Outcome("returned", score_accepted(platform.score.status),
                 access_token.requests, 1)

\* submit_grade, the body of its try block
submit_grade_try(id_token_claims, platform) ==
    IF ags_endpoint \notin id_token_claims.has \/ id_token_claims.ags = "empty"
    THEN Outcome("returned", FALSE, 0, 0)
    \* ags_claim.get on a string: AttributeError
    ELSE IF id_token_claims.ags = "text" THEN Outcome("raised", FALSE, 0, 0)
    ELSE IF id_token_claims.ags # "lineitem" THEN Outcome("returned", FALSE, 0, 0)
    ELSE LET access_token == get_access_token(platform.token) IN
         IF ~access_token.returned
         THEN Outcome("blocked", FALSE, access_token.requests, 0)
         ELSE IF ~access_token.access_token
         THEN Outcome("returned", FALSE, access_token.requests, 0)
         \* requests.post(scores_url, ...), without a timeout
         ELSE IF platform.score.kind = "silence"
         THEN Outcome("blocked", FALSE, access_token.requests, 1)
         ELSE IF platform.score.kind = "error"
         THEN Outcome("raised", FALSE, access_token.requests, 1)
         ELSE Outcome("returned", score_accepted(platform.score.status),
                      access_token.requests, 1)

\* The exception let through.
except_nothing(outcome) == outcome

\* except Exception: return False
except_Exception(outcome) ==
    IF outcome.st = "raised" THEN [outcome EXCEPT !.st = "returned", !.result = FALSE]
    ELSE outcome

\* LTIGradeSubmitter.submit_grade
submit_grade(id_token_claims, platform) ==
    except_Exception(submit_grade_try(id_token_claims, platform))

\* An invocation of submit_grade: for which session (0: called directly),
\* with which claims, meeting which platform, and how it ended ("called":
\* it has not run yet).
Call(session_id, id_token_claims, platform, outcome) ==
    [session_id |-> session_id, claims |-> id_token_claims, platform |-> platform,
     st |-> outcome.st, result |-> outcome.result,
     token_requests |-> outcome.token_requests,
     score_requests |-> outcome.score_requests]

\* ------------------------------------ lti_integration.py: launch records
\* the retention window of get_lti_session, in seconds
retention == 7200

\* No record ever too old.
within_retention_always(age) == TRUE

\* time.time() - session["timestamp"] < 7200
within_retention(age) == age < retention

\* get_lti_session: the set holding the claims, or {} for None.
get_lti_session(store, session_id) ==
    IF session_id \in DOMAIN store /\ within_retention(now - store[session_id].timestamp)
    THEN {store[session_id].claims}
    ELSE {}

\* ------------------------------------------- app.py: assessment endpoints
\* The session ids a client may send: those created, and one that never was.
SessionIds == 1..(MaxSess + 1)

\* The instants the clock is read at: those of the launches, and those
\* around the end of the retention window of a record stored then.
Instants == Times \cup ((retention - MaxTime)..(retention + MaxTime))

\* What evaluate_answer returns: the model's JSON object as it is when it
\* holds the four fields, else a stock evaluation of zeros.
\*   "numbers"   the scores are numbers
\*   "text"      a score is a string or null (the values are not validated)
Evaluations == {"numbers", "text"}

\* score_response: the evaluation is recorded and the counter advanced; the
\* print that follows formats the scores as numbers and raises for one that
\* is not, and the except branch then advances the counter and records an
\* error evaluation once more.  finished is not touched.
score_response(session, evaluation) ==
    IF evaluation = "numbers"
    THEN [session EXCEPT !.history = @ + 1, !.question_number = @ + 1]
    ELSE [session EXCEPT !.history = @ + 1 + 1, !.question_number = @ + 1 + 1]

\* del SESSIONS[session_id]
del_session(sessions, session_id) ==
    [s \in DOMAIN sessions \ {session_id} |-> sessions[s]]

\* The event loop is inside a submit_grade that never returns: no request
\* is served any more.
Blocked ==
    \E i \in DOMAIN calls : calls[i].session_id # 0 /\ calls[i].st = "blocked"

\* POST /answer with completion told by the question count, the session
\* kept and the finished test at the entry left out.
answer_resubmitting(session_id) ==
    /\ ~Blocked
    /\ UNCHANGED <<used_nonces, nonce_ctr, launched, lti_sessions, sid_ctr, now, req, keystore>>
    /\ IF session_id \notin DOMAIN SESSIONS
       THEN /\ response' = Response("answer", session_id, 404, FALSE, "absent", FALSE)
            /\ UNCHANGED <<SESSIONS, calls>>
       ELSE \E evaluation \in Evaluations :
            LET scored == score_response(SESSIONS[session_id], evaluation)
                lti_claims == get_lti_session(lti_sessions, session_id)
            IN  IF scored.question_number > max_questions /\ lti_claims # {}
                THEN \E platform \in Platforms :
                        LET claims == CHOOSE c \in lti_claims : TRUE
                            grade == submit_grade(claims, platform)
                        IN  /\ calls' = Append(calls, Call(session_id, claims, platform, grade))
                            /\ SESSIONS' = SESSIONS
                            /\ response' =
                                 Response("answer", session_id, 200, TRUE,
                                          IF grade.result THEN "true" ELSE "false", FALSE)
                ELSE /\ SESSIONS' = [SESSIONS EXCEPT ![session_id] = next_question(scored)]
                     /\ response' = Response("answer", session_id, 200, FALSE, "absent", FALSE)
                     /\ calls' = calls

\* Only a session without a question is turned away.
already_completed_ignored(session) == session.current_question = 0

\* `if session.finished:` and `if not session.current_question:` at the
\* entry of /answer, each raising 400
already_completed(session) == session.finished \/ session.current_question = 0

\* POST /answer, the handler body.  It is an `async def` without an await:
\* scoring (a blocking call to the model) and submit_grade (blocking posts
\* to the platform) run on the event loop, and no other request is served
\* in between.
answer(session_id) ==
    /\ ~Blocked
    /\ UNCHANGED <<used_nonces, nonce_ctr, launched, lti_sessions, sid_ctr, now, req, keystore>>
    /\ IF session_id \notin DOMAIN SESSIONS
       THEN /\ response' = Response("answer", session_id, 404, FALSE, "absent", FALSE)
            /\ UNCHANGED <<SESSIONS, calls>>
       ELSE IF already_completed(SESSIONS[session_id])
       THEN /\ response' = Response("answer", session_id, 400, FALSE, "absent", FALSE)
            /\ UNCHANGED <<SESSIONS, calls>>
       ELSE \E evaluation \in Evaluations :
            LET scored == score_response(SESSIONS[session_id], evaluation) IN
            \* `if session.finished:` after scoring
            IF scored.finished
            THEN LET lti_claims == get_lti_session(lti_sessions, session_id) IN
                 IF lti_claims = {}
                 THEN /\ SESSIONS' = del_session(SESSIONS, session_id)
                      /\ response' = Response("answer", session_id, 200, TRUE, "absent", FALSE)
                      /\ calls' = calls
                 ELSE \E platform \in Platforms :
                        LET claims == CHOOSE c \in lti_claims : TRUE
                            grade == submit_grade(claims, platform)
                        IN  /\ calls' = Append(calls, Call(session_id, claims, platform, grade))
                            /\ IF grade.st = "blocked"
                               THEN /\ SESSIONS' = [SESSIONS EXCEPT ![session_id] = scored]
                                    /\ response' = response
                               ELSE IF grade.st = "raised"
                               \* `except Exception` of the handler
                               THEN /\ SESSIONS' = [SESSIONS EXCEPT ![session_id] = scored]
                                    /\ response' = Response("answer", session_id, 500,
                                                            FALSE, "absent", FALSE)
                               ELSE /\ SESSIONS' = del_session(SESSIONS, session_id)
                                    /\ response' =
                                         Response("answer", session_id, 200, TRUE,
                                                  IF grade.result THEN "true" ELSE "false",
                                                  FALSE)
            ELSE /\ SESSIONS' = [SESSIONS EXCEPT ![session_id] = next_question(scored)]
                 /\ response' = Response("answer", session_id, 200, FALSE, "absent", FALSE)
                 /\ calls' = calls

\* GET /session/{session_id}
get_session_status(session_id) ==
    /\ ~Blocked
    /\ response' =
         IF session_id \notin DOMAIN SESSIONS
         THEN Response("status", session_id, 404, FALSE, "absent", FALSE)
         ELSE Response("status", session_id, 200, SESSIONS[session_id].finished, "absent",
                       get_lti_session(lti_sessions, session_id) # {})
    /\ UNCHANGED <<used_nonces, nonce_ctr, launched, SESSIONS, lti_sessions, sid_ctr, now,
                   req, calls, keystore>>

\* DELETE /session/{session_id}
end_session(session_id) ==
    /\ ~Blocked
    /\ IF session_id \in DOMAIN SESSIONS
       THEN /\ SESSIONS' = del_session(SESSIONS, session_id)
            /\ response' = Response("end", session_id, 200, FALSE, "absent", FALSE)
       ELSE /\ SESSIONS' = SESSIONS
            /\ response' = Response("end", session_id, 404, FALSE, "absent", FALSE)
    /\ UNCHANGED <<used_nonces, nonce_ctr, launched, lti_sessions, sid_ctr, now, req, calls, keystore>>

\* Time passes: the clock is next read at a later instant.
Tick(t) ==
    /\ t > now
    /\ now' = t
    /\ UNCHANGED <<used_nonces, nonce_ctr, launched, SESSIONS, lti_sessions, sid_ctr, req,
                   response, calls, keystore>>

\* ------------------------------------------------------------- SpecAnswer
\* The claims of the launch that created session s: the platform's token
\* with nonce s, gradable.
LaunchClaims(s) ==
    MkToken(ClaimNames \ {"nbf"}, issuer, client_id, MaxTime, 0, s, "str", TRUE)

\* The assessment endpoints after the launches: every nonce was issued and
\* consumed by a launch, some of the launches were gradable and left a
\* record at the time they were served, one session is still open (the
\* others were ended), its first question asked.
InitAnswer ==
    /\ nonce_ctr = MaxNonce
    /\ used_nonces = {}
    /\ sid_ctr = MaxSess
    /\ launched = { [sid |-> n, nonce |-> n] : n \in 1..MaxSess }
    /\ \E open \in 1..MaxSess : SESSIONS = [s \in {open} |-> next_question(SessionState)]
    /\ \E gradable \in SUBSET (1..MaxSess) : \E stamp \in [gradable -> Times] :
          /\ lti_sessions = [s \in gradable |->
                                [claims |-> LaunchClaims(s), timestamp |-> stamp[s]]]
          /\ now \in { t \in Times : \A s \in gradable : stamp[s] <= t }
    /\ req = [r \in ReqIds |-> Idle]
    /\ response = NoResponse
    /\ calls = <<>>
    /\ keystore = Serving

NextAnswer ==
    \/ \E session_id \in SessionIds : answer(session_id)
    \/ \E session_id \in SessionIds : get_session_status(session_id)
    \/ \E session_id \in SessionIds : end_session(session_id)
    \/ \E t \in Instants : Tick(t)

SpecAnswer == InitAnswer /\ [][NextAnswer]_vars

\* The service keeps answering the requests that come in, and the clock
\* keeps running up to the last instant it is read at.
SpecAnswerFair == SpecAnswer /\ WF_vars(NextAnswer)

\* ----------------------------------------------------------- SpecRegistry
\* Logins and launches while time passes: the service keeps serving the
\* requests that come in and the clock keeps running.
NextRegistry ==
    \/ Next
    \/ \E t \in Instants : Tick(t)

SpecRegistry == Init /\ [][NextRegistry]_vars /\ WF_vars(NextRegistry)

\* --------------------------------------------------------------- SpecKeys
\* A deployment before its first start: no key file, nothing in memory.
InitKeys ==
    /\ used_nonces = {}
    /\ nonce_ctr = 0
    /\ launched = {}
    /\ SESSIONS = <<>>
    /\ lti_sessions = <<>>
    /\ sid_ctr = 0
    /\ now = 0
    /\ req = [r \in ReqIds |-> Idle]
    /\ response = NoResponse
    /\ calls = <<>>
    /\ keystore = KeyStore(NoFile, "stopped", NoKey, FALSE, 0, 0, FALSE)

\* The process starts: app.py is imported, `lti_config = LTIConfig()` runs
\* _get_or_generate_private_key; an exception there ends the process before
\* the server listens.  The module's tables start empty.
Start ==
    LET got == get_or_generate_private_key(keystore.file, keystore.generated)
    IN  /\ keystore.process # "serving"
        /\ got.generated <= MaxKeys
        /\ keystore' =
             IF got.raised
             THEN KeyStore(got.file, "failed", NoKey, FALSE, got.generated, keystore.first,
                           keystore.touched)
             ELSE KeyStore(got.file, "serving", got.key,
                           got.generated = keystore.generated, got.generated,
                           IF keystore.first = 0 THEN got.key.n ELSE keystore.first,
                           keystore.touched)
        /\ used_nonces' = {}
        /\ SESSIONS' = <<>>
        /\ lti_sessions' = <<>>
        /\ UNCHANGED <<nonce_ctr, launched, sid_ctr, now, req, response, calls>>

\* The process is stopped: what it held in memory is gone.
Stop ==
    /\ keystore.process = "serving"
    /\ keystore' = KeyStore(keystore.file, "stopped", NoKey, FALSE, keystore.generated,
                            keystore.first, keystore.touched)
    /\ UNCHANGED <<used_nonces, nonce_ctr, launched, SESSIONS, lti_sessions, sid_ctr, now, req,
                   response, calls>>

\* Something other than the service damages, replaces or removes the file.
Tamper(file) ==
    /\ file # keystore.file
    /\ keystore' = [keystore EXCEPT !.file = file, !.touched = TRUE]
    /\ UNCHANGED <<used_nonces, nonce_ctr, launched, SESSIONS, lti_sessions, sid_ctr, now, req,
                   response, calls>>

\* GET /lti/jwks
lti_jwks ==
    /\ keystore.process = "serving"
    /\ keystore' = [keystore EXCEPT !.jwks = get_public_jwks(keystore.public_key)]
    /\ UNCHANGED <<used_nonces, nonce_ctr, launched, SESSIONS, lti_sessions, sid_ctr, now, req,
                   response, calls>>

\* _get_access_token signs a client assertion.
sign_client_assertion ==
    /\ keystore.process = "serving"
    /\ Len(keystore.jtis) < MaxSigned
    /\ keystore' = [keystore EXCEPT
                      !.assertion = client_assertion(keystore.private_key, now),
                      !.jtis = Append(@, client_assertion(keystore.private_key, now).jti)]
    /\ UNCHANGED <<used_nonces, nonce_ctr, launched, SESSIONS, lti_sessions, sid_ctr, now, req,
                   response, calls>>

NextKeys ==
    \/ Start
    \/ Stop
    \/ \E file \in {NoFile, CorruptFile} : Tamper(file)
    \/ lti_jwks
    \/ sign_client_assertion
    \/ \E t \in Instants : Tick(t)

SpecKeys == InitKeys /\ [][NextKeys]_vars

\* -------------------------------------------------------------- SpecGrade
\* The claims submit_grade may be handed: those of a launch that passed
\* validate_launch, with or without the grading-services claim, the claim
\* of any shape.
GradeClaims ==
    { [LaunchClaims(1) EXCEPT !.ags = k] : k \in {"lineitem", "object", "text", "empty"} }
      \cup { MkToken(ClaimNames \ {"nbf", ags_endpoint}, issuer, client_id, MaxTime, 0, 1,
                     "str", TRUE) }

\* One invocation of submit_grade, with any claims and any platform.
InitGrade ==
    /\ used_nonces = {}
    /\ nonce_ctr = 0
    /\ launched = {}
    /\ SESSIONS = <<>>
    /\ lti_sessions = <<>>
    /\ sid_ctr = 0
    /\ now \in Times
    /\ req = [r \in ReqIds |-> Idle]
    /\ response = NoResponse
    /\ \E id_token_claims \in GradeClaims, platform \in Platforms :
          calls = << Call(0, id_token_claims, platform, Outcome("called", FALSE, 0, 0)) >>
    /\ keystore = Serving

\* The invocation runs, to its return or to the point it waits at for ever.
GradeCall ==
    /\ \E i \in DOMAIN calls :
          /\ calls[i].st = "called"
          /\ calls' = [calls EXCEPT
                         ![i] = Call(0, calls[i].claims, calls[i].platform,
                                     submit_grade(calls[i].claims, calls[i].platform))]
    /\ UNCHANGED <<used_nonces, nonce_ctr, launched, SESSIONS, lti_sessions, sid_ctr, now,
                   req, response, keystore>>

NextGrade == GradeCall

\* A function that was called runs.
SpecGrade == InitGrade /\ [][NextGrade]_vars /\ WF_vars(NextGrade)

\* ------------------------------------------------------------------ claims
\* The handler served request r in this step.
Handled(r) == req[r].st \in {"pending", "checked"} /\ req'[r].st = "done"

\* A token that is valid in everything but, possibly, its nonce: a JWT the
\* platform signed, with every required claim, the configured issuer and
\* audience, not expired and not ahead of its not-before time.
OtherwiseValid(t) ==
    /\ t.jwt /\ t.sig
    /\ {"iss", "aud", "sub", "exp", "iat", "nonce", message_type, version} \subseteq t.has
    /\ t.iss = issuer /\ t.aud = client_id
    /\ t.nonce_type = "str"
    /\ ~(now > t.exp)
    /\ ("nbf" \in t.has => t.nbf <= now)

\* C1: a launch token is accepted at most once per nonce.  Serving an
\* otherwise valid token whose nonce /lti/login issued answers 200 when no
\* launch was accepted with that nonce before, and from then on 401.
C1_AcceptedOncePerNonce ==
    [][\A r \in ReqIds :
         (Handled(r) /\ OtherwiseValid(req[r].tok) /\ req[r].tok.nonce \in 1..nonce_ctr)
         => IF req[r].tok.nonce \in Consumed
            THEN req'[r].status = 401 /\ launched' = launched
            ELSE req'[r].status = 200 /\ req[r].tok.nonce \in Consumed']_vars

\* The same token presented twice in sequence: 200, then 401.
C1_Witness ==
    \E r1, r2 \in ReqIds :
        /\ req[r1].st = "done" /\ req[r2].st = "done"
        /\ req[r1].tok = req[r2].tok /\ OtherwiseValid(req[r1].tok)
        /\ ~req[r1].raced /\ ~req[r2].raced
        /\ req[r1].status = 200 /\ req[r2].status = 401

\* C2: the nonce check-and-remove is atomic.  Of all launch requests that
\* carry one nonce, at most one ever passes the nonce check, whatever the
\* order the requests in flight are served in.
C2_OnePassesPerNonce ==
    \A n \in NonceVals :
        Cardinality({p \in launched : p.nonce = n})
          + Cardinality({r \in ReqIds : req[r].st = "checked" /\ req[r].tok.nonce = n}) <= 1

\* Two requests with the same nonce were in flight together: one was
\* accepted, the other answered 401.
C2_Witness ==
    \E r1, r2 \in ReqIds :
        /\ req[r1].st = "done" /\ req[r2].st = "done"
        /\ req[r1].tok.nonce = req[r2].tok.nonce
        /\ req[r1].raced
        /\ req[r1].status = 200 /\ req[r2].status = 401

\* C3: a token whose nonce is not in the registry when it is served (the
\* claim is absent, was never issued, or was consumed) is rejected whatever
\* its other claims are, and no assessment session is created for it.
C3_UnregisteredNonceRejected ==
    [][\A r \in ReqIds :
         (Handled(r) /\ ~("nonce" \in req[r].tok.has /\ req[r].tok.nonce_type = "str"
                          /\ req[r].tok.nonce \in used_nonces))
         => /\ req'[r].status # 200
            /\ SESSIONS' = SESSIONS /\ lti_sessions' = lti_sessions
            /\ sid_ctr' = sid_ctr]_vars

\* A token valid in everything else, its nonce consumed before, answered 401.
C3_Witness ==
    \E r \in ReqIds :
        /\ req[r].st = "done" /\ OtherwiseValid(req[r].tok)
        /\ req[r].tok.nonce \in Consumed
        /\ req[r].status = 401
        /\ DOMAIN SESSIONS = { p.sid : p \in launched }

\* C4: no token is accepted unless its signature verifies against the
\* platform's published key.
C4_SignatureVerified ==
    \A r \in ReqIds : (req[r].st = "done" /\ req[r].status = 200) => req[r].tok.sig

\* C5: a token whose exp is in the past is rejected.
C5_ExpiredRejected ==
    \A r \in ReqIds :
        (req[r].st = "done" /\ "exp" \in req[r].tok.has /\ now > req[r].tok.exp)
        => req[r].status # 200

\* C6: a token whose aud is not the configured client id is rejected, also
\* with the right issuer and a registered nonce, and the nonce stays
\* registered.
C6_WrongAudienceRejected ==
    [][\A r \in ReqIds :
         (Handled(r) /\ "aud" \in req[r].tok.has /\ req[r].tok.aud # client_id)
         => /\ req'[r].status = 401
            /\ used_nonces' = used_nonces]_vars

\* A token of the right issuer with a registered nonce and another
\* audience, answered 401, the nonce still registered.
C6_Witness ==
    \E r \in ReqIds :
        /\ req[r].st = "done" /\ req[r].status = 401
        /\ req[r].tok.has = ClaimNames \ {"nbf"}
        /\ req[r].tok.sig /\ req[r].tok.exp > now
        /\ req[r].tok.iss = issuer /\ req[r].tok.aud # client_id
        /\ req[r].tok.nonce_type = "str" /\ req[r].tok.nonce \in used_nonces

\* C7: a token whose iss is not the configured platform issuer is rejected
\* by validate_launch.
C7_WrongIssuerRejected ==
    \A r \in ReqIds :
        (req[r].st = "done" /\ "iss" \in req[r].tok.has /\ req[r].tok.iss # issuer)
        => validate_launch(req[r].tok) = {} /\ req[r].status = 401

\* A token wrong in its issuer alone, answered 401.
C7_Witness ==
    \E r \in ReqIds :
        /\ req[r].st = "done" /\ req[r].status = 401
        /\ req[r].tok.has = ClaimNames \ {"nbf"}
        /\ req[r].tok.sig /\ req[r].tok.exp > now
        /\ req[r].tok.iss # issuer /\ req[r].tok.aud = client_id
        /\ req[r].tok.nonce_type = "str" /\ req[r].tok.nonce \in used_nonces

\* C8: a token that lacks any of the eight required claims is rejected by
\* validate_launch, whichever claims are missing.
C8_MissingClaimRejected ==
    \A r \in ReqIds :
        (/\ req[r].st = "done" /\ req[r].tok.jwt
         /\ \E c \in {"iss", "aud", "sub", "exp", "iat", "nonce", message_type, version} :
               c \notin req[r].tok.has)
        => validate_launch(req[r].tok) = {} /\ req[r].status = 401

\* A signed token that lacks only iat, answered 401.
C8_Witness ==
    \E r \in ReqIds :
        /\ req[r].st = "done" /\ req[r].status = 401
        /\ req[r].tok.has = ClaimNames \ {"nbf", "iat"}
        /\ req[r].tok.sig /\ req[r].tok.exp > now
        /\ req[r].tok.iss = issuer /\ req[r].tok.aud = client_id
        /\ req[r].tok.nonce_type = "str" /\ req[r].tok.nonce \in used_nonces

\* C9: a token whose nbf is later than the current time is rejected.
C9_NotYetValidRejected ==
    \A r \in ReqIds :
        (req[r].st = "done" /\ "nbf" \in req[r].tok.has /\ req[r].tok.nbf > now)
        => req[r].status # 200

\* C10: after /lti/login issued a nonce, the launch with an otherwise valid
\* token carrying it (no launch was accepted with it before) answers 200, and
\* the registry no longer holds the nonce.
C10_LoginThenLaunch ==
    [][\A r \in ReqIds :
         (/\ Handled(r) /\ OtherwiseValid(req[r].tok) /\ req[r].tok.exp > now
          /\ req[r].tok.nonce \in 1..nonce_ctr /\ req[r].tok.nonce \notin Consumed)
         => /\ req'[r].status = 200
            /\ req[r].tok.nonce \notin used_nonces'
            /\ req'[r].sid \in DOMAIN SESSIONS']_vars

\* The launch was accepted and its nonce is gone from the registry.
C10_Witness ==
    \E r \in ReqIds :
        /\ req[r].st = "done" /\ req[r].status = 200
        /\ OtherwiseValid(req[r].tok) /\ req[r].tok.exp > now
        /\ req[r].tok.nonce \in 1..nonce_ctr
        /\ req[r].tok.nonce \notin used_nonces
        /\ req[r].sid \in DOMAIN SESSIONS

\* C11: every nonce in the registry was issued by some /lti/login and no
\* launch was ever accepted with it; the nonces launches were accepted with
\* only accumulate, so a consumed nonce never is in the registry again.
C11_RegistryIssuedUnconsumed ==
    /\ used_nonces \subseteq 1..nonce_ctr
    /\ used_nonces \cap Consumed = {}

\* A nonce was consumed, and a nonce issued after it is registered.
C11_Witness ==
    \E n \in used_nonces, c \in Consumed : n > c /\ c \notin used_nonces

\* /answer scored the answer to the last question of session s in this step.
AnsweredLast(s) ==
    /\ s \in DOMAIN SESSIONS
    /\ SESSIONS[s].question_number = max_questions
    /\ SESSIONS' # SESSIONS
    /\ response'.op = "answer" /\ response'.session_id = s

\* The platform grants an access token.
TokenGranted(platform) ==
    /\ platform.token.kind = "response"
    /\ platform.token.status = 200
    /\ platform.token.access_token

\* The claims name a line item to post the score to.
HasLineitem(id_token_claims) ==
    ags_endpoint \in id_token_claims.has /\ id_token_claims.ags = "lineitem"

\* C12: when /answer scores the last of max_questions answers of a session
\* whose launch record is within the retention window, submit_grade is
\* invoked for the session and the response is the completion summary:
\* status 200, finished true, grade_submitted present.
C12_GradableCompletionSubmits ==
    [][\A s \in SessionIds :
         (AnsweredLast(s) /\ get_lti_session(lti_sessions, s) # {})
         => /\ response'.status = 200 /\ response'.finished
            /\ response'.grade_submitted # "absent"
            /\ Len(calls') = Len(calls) + 1
            /\ calls'[Len(calls')].session_id = s]_vars

\* C13: submit_grade returns True exactly when the token request was
\* answered 200 with an access token and the score post was answered 200 or
\* 201; with the token obtained and the score post answered anything else
\* it returns False.
C13_TrueIffBothStepsSucceed ==
    \A i \in DOMAIN calls :
        LET c == calls[i] IN
        /\ c.st = "returned"
           => (c.result <=> /\ HasLineitem(c.claims)
                            /\ TokenGranted(c.platform)
                            /\ c.platform.score.kind = "response"
                            /\ c.platform.score.status \in {200, 201})
        /\ (/\ c.st # "called" /\ HasLineitem(c.claims) /\ TokenGranted(c.platform)
            /\ c.platform.score.kind = "response"
            /\ c.platform.score.status \notin {200, 201})
           => c.st = "returned" /\ c.result = FALSE /\ c.score_requests = 1

\* The token was obtained, the score post was answered 204: False.
C13_Witness ==
    \E i \in DOMAIN calls :
        /\ calls[i].st = "returned" /\ calls[i].result = FALSE
        /\ HasLineitem(calls[i].claims) /\ TokenGranted(calls[i].platform)
        /\ calls[i].platform.score.kind = "response"
        /\ calls[i].platform.score.status = 204
        /\ calls[i].token_requests = 1 /\ calls[i].score_requests = 1

\* C14: when the token endpoint answers the token request with anything but
\* 200, submit_grade returns False and sends nothing to the scores endpoint.
C14_TokenRefusedAborts ==
    \A i \in DOMAIN calls :
        (/\ calls[i].st # "called" /\ HasLineitem(calls[i].claims)
         /\ calls[i].platform.token.kind = "response"
         /\ calls[i].platform.token.status # 200)
        => /\ calls[i].st = "returned" /\ calls[i].result = FALSE
           /\ calls[i].score_requests = 0

\* The token endpoint answered 400, with a token in the body and a scores
\* endpoint that would have accepted the score: False, nothing posted.
C14_Witness ==
    \E i \in DOMAIN calls :
        /\ calls[i].st = "returned" /\ calls[i].result = FALSE
        /\ HasLineitem(calls[i].claims)
        /\ calls[i].platform.token = PlatformResponse("response", 400, TRUE)
        /\ calls[i].platform.score = PlatformResponse("response", 200, FALSE)
        /\ calls[i].token_requests = 1 /\ calls[i].score_requests = 0

C17_NoRetry ==
    \A i \in DOMAIN calls :
        calls[i].token_requests <= 1 /\ calls[i].score_requests <= 1

\* Both endpoints answered 500: one request each, and False.
C17_Witness ==
    \E i \in DOMAIN calls :
        /\ calls[i].st = "returned" /\ calls[i].result = FALSE
        /\ HasLineitem(calls[i].claims)
        /\ calls[i].platform.token.kind = "response"
        /\ calls[i].platform.token.status = 500
        /\ calls[i].token_requests = 1 /\ calls[i].score_requests = 0

\* C18: every invocation of submit_grade returns in the end, also when an
\* endpoint of the platform never answers.
C18_SubmitGradeTerminates ==
    <>(\A i \in DOMAIN calls : calls[i].st = "returned")

\* C19: get_lti_session returns the stored claims of a record younger than
\* 7200 s and None for a record older than that, the record still being in
\* the store.
C19_RetentionWindow ==
    \A s \in DOMAIN lti_sessions :
        LET age == now - lti_sessions[s].timestamp IN
        /\ age < 7200 => get_lti_session(lti_sessions, s) = {lti_sessions[s].claims}
        /\ age > 7200 => get_lti_session(lti_sessions, s) = {}

\* A record stored at 0 and read at 7201: it is in the store, it is absent
\* for get_lti_session, and GET /session/{id} reported no LTI session.
C19_Witness ==
    \E s \in DOMAIN lti_sessions :
        /\ lti_sessions[s].timestamp = 0 /\ now = 7201
        /\ get_lti_session(lti_sessions, s) = {}
        /\ response.op = "status" /\ response.session_id = s
        /\ response.status = 200 /\ ~response.is_lti_session

\* C20: when /answer scores the last answer of a session whose launch record
\* is past the retention window or was never stored, submit_grade is not
\* invoked and the response is the completion summary: 200, finished true.
C20_DegradesToNonGradable ==
    [][\A s \in SessionIds :
         (AnsweredLast(s) /\ get_lti_session(lti_sessions, s) = {})
         => /\ calls' = calls
            /\ response'.status = 200 /\ response'.finished]_vars

\* C21: a launch record older than the retention window is removed from the
\* store in the end, by the read that finds it expired or by a sweep.
C21_ExpiredRecordRemoved ==
    \A s \in 1..MaxSess :
        []((s \in DOMAIN lti_sessions /\ now - lti_sessions[s].timestamp > retention)
           => <>(s \notin DOMAIN lti_sessions))

\* A launch request carrying nonce n is being served or was just answered.
Presented(n) ==
    \E r \in ReqIds : req[r].st # "idle" /\ req[r].tok.nonce = n

C29_FailedLaunchLeavesNoEntry ==
    [][\A r \in ReqIds :
         (Handled(r) /\ req'[r].status \in {401, 500})
         => (SESSIONS' = SESSIONS /\ lti_sessions' = lti_sessions)]_vars

\* C30: a launch rejected with 401 (a required claim missing, issuer or
\* audience mismatch, unknown nonce) leaves the nonce registry, SESSIONS and
\* the launch-session store unchanged; in particular a token rejected for
\* its issuer or audience does not consume its nonce.
C30_RejectedLaunchChangesNothing ==
    [][\A r \in ReqIds :
         (Handled(r) /\ req'[r].status = 401)
         => /\ used_nonces' = used_nonces
            /\ SESSIONS' = SESSIONS
            /\ lti_sessions' = lti_sessions]_vars

\* A token with every required claim and a registered nonce was answered
\* 401 for its issuer or audience, and its nonce is still registered.
C30_Witness ==
    \E r \in ReqIds :
        /\ req[r].st = "done" /\ req[r].status = 401
        /\ req[r].tok.jwt /\ required_claims \subseteq req[r].tok.has
        /\ req[r].tok.iss # issuer \/ req[r].tok.aud # client_id
        /\ req[r].tok.nonce_type = "str"
        /\ req[r].tok.nonce \in used_nonces

\* C23: a successful launch establishes exactly one new assessment session,
\* and registers the launch claims in the launch-session store under that
\* session id if and only if the claims contain the grading-services endpoint
\* claim; a launch that does not succeed answers 401 or 500.
C23_LaunchEstablishesSession ==
    [][\A r \in ReqIds :
         Handled(r)
         => IF req'[r].status = 200
            THEN LET session_id == req'[r].sid
                 IN  /\ session_id \notin DOMAIN SESSIONS
                     /\ DOMAIN SESSIONS' = DOMAIN SESSIONS \cup {session_id}
                     /\ \A s \in DOMAIN SESSIONS : SESSIONS'[s] = SESSIONS[s]
                     /\ IF ags_endpoint \in req[r].tok.has
                        THEN /\ DOMAIN lti_sessions' = DOMAIN lti_sessions \cup {session_id}
                             /\ lti_sessions'[session_id].claims = req[r].tok
                        ELSE lti_sessions' = lti_sessions
            ELSE req'[r].status \in {401, 500}]_vars

\* A gradable launch succeeded and its claims are stored under its session
\* id, next to a session an earlier launch created.
C23_Witness ==
    \E r \in ReqIds :
        /\ req[r].st = "done" /\ req[r].status = 200
        /\ ags_endpoint \in req[r].tok.has
        /\ req[r].sid \in DOMAIN SESSIONS /\ req[r].sid \in DOMAIN lti_sessions
        /\ lti_sessions[req[r].sid].claims = req[r].tok
        /\ DOMAIN SESSIONS # {req[r].sid}

\* C28: every /lti/login generates a nonce that was never issued before,
\* adds exactly that nonce to the nonce registry and returns a redirect whose
\* nonce parameter is that nonce; it changes neither SESSIONS nor the
\* launch-session store.
C28_LoginIssuesFreshNonce ==
    [][nonce_ctr' # nonce_ctr
       => /\ response'.op = "login" /\ response'.status = 307
          /\ response'.nonce \notin 1..nonce_ctr
          /\ response'.nonce \notin used_nonces
          /\ used_nonces' = used_nonces \cup {response'.nonce}
          /\ SESSIONS' = SESSIONS
          /\ lti_sessions' = lti_sessions]_vars

\* A login was served after a gradable launch had created a session: its
\* nonce is registered, next to the session and the launch record.
C28_Witness ==
    /\ response.op = "login"
    /\ response.nonce \in used_nonces
    /\ SESSIONS # <<>> /\ lti_sessions # <<>>

\* The published entry names the key pair the assertion was signed with.
Verifies(assertion, jwk) ==
    /\ jwk.kty = "RSA" /\ jwk.alg = assertion.alg
    /\ base64url_to_int(jwk.n) = assertion.signed_with
    /\ base64url_to_int(jwk.e) = public_exponent

\* C25: in every state of a running process, the public key get_public_jwks
\* publishes is the public half of the private key _get_access_token signs
\* client assertions with, and the kid of the assertion header equals the kid
\* of the published entry.
C25_PublishedKeyIsSigningKey ==
    keystore.process = "serving"
    => /\ Verifies(client_assertion(keystore.private_key, now),
                   get_public_jwks(keystore.public_key))
       /\ client_assertion(keystore.private_key, now).kid = get_public_jwks(keystore.public_key).kid
       /\ (keystore.jwks # NoJwks /\ keystore.assertion # NoAssertion)
          => /\ Verifies(keystore.assertion, keystore.jwks)
             /\ keystore.assertion.kid = keystore.jwks.kid

\* A process running on the second key pair (the file of the first was
\* removed) has published its key set and signed an assertion.
C25_Witness ==
    /\ keystore.process = "serving"
    /\ keystore.private_key.n > keystore.first
    /\ keystore.jwks # NoJwks /\ keystore.assertion # NoAssertion

\* C26: key loading is idempotent across restarts.  A key pair is generated
\* only when no key file exists, and as long as the file is as the service
\* wrote it, every start uses the key pair of the first start and publishes
\* the same key set.
C26_SameKeyAcrossRestarts ==
    [][/\ keystore'.generated # keystore.generated => keystore.file.kind = "absent"
       /\ (keystore'.process = "serving" /\ ~keystore'.touched)
          => /\ keystore'.private_key = generate_private_key(keystore'.first)
             /\ get_public_jwks(keystore'.public_key)
                  = get_public_jwks(public_key(generate_private_key(keystore'.first)))
             /\ keystore'.file = private_bytes(generate_private_key(keystore'.first))]_vars

\* A restarted process that read the untouched file of the first start.
C26_Witness ==
    /\ keystore.process = "serving"
    /\ keystore.loaded /\ ~keystore.touched
    /\ keystore.private_key.n = keystore.first

\* C27: when the key file exists and is corrupt or unreadable, a start fails
\* for good: no key pair is generated, the file is left as it is, and the
\* process does not come to serve requests.
C27_CorruptKeyFileIsFatal ==
    [][(keystore.process # "serving" /\ keystore.file.kind = "corrupt")
       => /\ keystore'.process # "serving"
          /\ keystore'.generated = keystore.generated
          /\ keystore'.process # keystore.process
             => (keystore'.process = "failed" /\ keystore'.file = keystore.file)]_vars

\* A start found the file of the first key pair corrupt and failed.
C27_Witness ==
    /\ keystore.process = "failed"
    /\ keystore.file.kind = "corrupt"
    /\ keystore.generated > 0

\* C31: at the retention boundary get_lti_session treats as absent only a
\* record strictly older than 7200 s: a record whose age is exactly 7200 s
\* is still returned.
C31_BoundaryRecordReturned ==
    \A s \in DOMAIN lti_sessions :
        get_lti_session(lti_sessions, s) = {}
        => now - lti_sessions[s].timestamp > retention

\* C32: every client assertion _get_access_token builds carries a jti
\* distinct from that of every other assertion the process has built, two
\* built within the same clock reading included.
C32_JtiUnique ==
    \A i, j \in DOMAIN keystore.jtis :
        i # j => keystore.jtis[i] # keystore.jtis[j]

\* The hints the platform supplied with a login request, in its query
\* string or in its form body.
Supplied(request) ==
    [k \in DOMAIN request.query_params \cup DOMAIN request.form |->
        IF k \in DOMAIN request.form THEN request.form[k] ELSE request.query_params[k]]

\* C33: the redirect built by /lti/login passes through the login_hint and
\* the lti_message_hint the platform supplied, whether they arrive as query
\* parameters of a GET or as form parameters of a POST.
C33_HintsPassedThrough ==
    response.op = "login"
    => /\ response.login_hint = get(Supplied(response.request), "login_hint", "")
       /\ response.lti_message_hint
            = get(Supplied(response.request), "lti_message_hint", "")

\* C34: when the launch claims handed to submit_grade hold no
\* grading-services endpoint claim, or one without a lineitem URL,
\* submit_grade returns False without sending a request to the token
\* endpoint or to the scores endpoint.
C34_NoLineitemNoRequest ==
    \A i \in DOMAIN calls :
        (calls[i].st # "called" /\ ~HasLineitem(calls[i].claims))
        => /\ calls[i].st = "returned" /\ ~calls[i].result
           /\ calls[i].token_requests = 0
           /\ calls[i].score_requests = 0

\* submit_grade returned False for claims whose endpoint claim is an object
\* without a lineitem, against a platform that grants tokens and accepts
\* scores, and sent it nothing.
C34_Witness ==
    \E i \in DOMAIN calls :
        /\ calls[i].st = "returned" /\ ~calls[i].result
        /\ ags_endpoint \in calls[i].claims.has /\ calls[i].claims.ags = "object"
        /\ TokenGranted(calls[i].platform)
        /\ calls[i].platform.score.kind = "response"
        /\ calls[i].platform.score.status = 200
        /\ calls[i].token_requests = 0 /\ calls[i].score_requests = 0

\* /answer for session s was accepted in this step: the answer was scored.
Scored(s) ==
    /\ s \in DOMAIN SESSIONS
    /\ ~SESSIONS[s].finished /\ SESSIONS[s].current_question # 0
    /\ response'.op = "answer" /\ response'.session_id = s /\ response'.status = 200
    /\ SESSIONS' # SESSIONS

\* C35: in every state of an assessment session the number of recorded
\* evaluations equals question_number - 1 and never exceeds max_questions;
\* each accepted /answer records exactly one evaluation and advances
\* question_number by exactly one, also when scoring fails.
C35_OneEvaluationPerAnswer ==
    [][\A s \in SessionIds :
         (Scored(s) /\ s \in DOMAIN SESSIONS')
         => /\ SESSIONS'[s].history = SESSIONS[s].history + 1
            /\ SESSIONS'[s].question_number = SESSIONS[s].question_number + 1
            /\ SESSIONS'[s].history = SESSIONS'[s].question_number - 1
            /\ SESSIONS'[s].history <= max_questions]_vars

\* The invocations of submit_grade made for session s.
CallsFor(history, s) == { i \in DOMAIN history : history[i].session_id = s }

\* C36: once an assessment session is finished, every further /answer for
\* it is refused with 400 and changes nothing: no evaluation is recorded,
\* question_number does not advance and no grade submission is made.
C36_FinishedSessionRefused ==
    [][\A s \in SessionIds :
         (s \in DOMAIN SESSIONS /\ SESSIONS[s].finished)
         => /\ s \in DOMAIN SESSIONS' => SESSIONS'[s] = SESSIONS[s]
            /\ CallsFor(calls', s) = CallsFor(calls, s)
            /\ (response' # response /\ response'.op = "answer"
                  /\ response'.session_id = s)
               => (response'.status = 400 /\ SESSIONS' = SESSIONS)]_vars

\* A finished session, still in the table, was sent an /answer and the
\* answer was refused.
C36_Witness ==
    \E s \in DOMAIN SESSIONS :
        /\ SESSIONS[s].finished
        /\ response.op = "answer" /\ response.session_id = s /\ response.status = 400

====
